---- MODULE Spec2Model ----
(***************************************************************************)
(* A model of scripts/build_research_bigten_completions.py: the pipeline   *)
(* build() that filters IPEDS completions to the Big Ten allow-list, joins *)
(* institution names and CIP titles, validates and writes one CSV, and the *)
(* three helpers it uses (load_bigten_unitids, format_cipcode,             *)
(* clean_excel_text_wrapper).                                              *)
(*                                                                         *)
(* Text is modelled as a sequence of one-character strings, so that the    *)
(* string operations of the code (strip, split, zfill, regex replace,      *)
(* float parsing and formatting) are computed and not assumed.  A nullable *)
(* cell is NA or V(x).                                                     *)
(***************************************************************************)
EXTENDS Integers, Sequences, FiniteSets, TLC

VARIABLES
    pc,             \* position of the run (of build, or of a helper call)
    arg,            \* the argument of the helper under study
    res1,           \* its result
    res2,           \* the result of applying the helper to res1
    inputs,         \* the files build reads: completions, hd, cip, ids, unreadable
    bigten_unitids, \* the allow-list build loaded
    table,          \* the table build is transforming (df ... research_final)
    cip2_lookup,    \* the 2-digit title lookup
    cip6_lookup,    \* the 6-digit title lookup
    error,          \* the exception that ended the run, or "none"
    written         \* the output files written so far (each a table)

vars == <<pc, arg, res1, res2, inputs, bigten_unitids, table, cip2_lookup,
          cip6_lookup, error, written>>

-----------------------------------------------------------------------------
(* Nullable values and text                                                *)

NA == [na |-> TRUE]
V(x) == [na |-> FALSE, v |-> x]
IsNA(c) == c.na

\* F applied to the value of e, with e evaluated once (a local variable of
\* the code: assigned once, read many times).
Bind(e, F(_)) == CHOOSE y \in {F(x) : x \in {e}} : TRUE

Digits == {"0", "1", "2", "3", "4", "5", "6", "7", "8", "9"}
DigitSeq == <<"0", "1", "2", "3", "4", "5", "6", "7", "8", "9">>
DigitVal(c) == (CHOOSE i \in 1..10 : DigitSeq[i] = c) - 1
DigitChar(n) == DigitSeq[n + 1]

IsDigits(s) == \A i \in 1..Len(s) : s[i] \in Digits

Zeros(n) == [i \in 1..n |-> "0"]

\* The position of the first occurrence of character c in s, or 0.
IndexOf(s, c) ==
    IF \E i \in 1..Len(s) : s[i] = c
    THEN CHOOSE i \in 1..Len(s) : s[i] = c /\ \A j \in 1..(i - 1) : s[j] # c
    ELSE 0

\* str.lower() on the letters the model's texts use.
LowerChar(c) ==
    CASE c = "N" -> "n"
      [] c = "A" -> "a"
      [] c = "E" -> "e"
      [] OTHER -> c
Lower(s) == [i \in 1..Len(s) |-> LowerChar(s[i])]

\* str.strip(): leading and trailing blanks removed.
Strip(s) ==
    IF \A i \in 1..Len(s) : s[i] = " " THEN <<>>
    ELSE LET a == CHOOSE i \in 1..Len(s) :
                      s[i] # " " /\ \A j \in 1..(i - 1) : s[j] = " "
             b == CHOOSE i \in 1..Len(s) :
                      s[i] # " " /\ \A j \in (i + 1)..Len(s) : s[j] = " "
         IN SubSeq(s, a, b)

\* str.zfill(2): zeros inserted after a leading sign, up to two characters.
Zfill2MutNoPad(s) == s
Zfill2(s) ==
    IF Len(s) >= 2 THEN s
    ELSE IF Len(s) = 0 THEN <<"0", "0">>
    ELSE IF s[1] \in {"+", "-"} THEN <<s[1], "0">>
    ELSE <<"0", s[1]>>

\* s.split(".", 1): the text before the first dot, and the text after it
\* (rest is NA when there is no dot).
SplitDot(s) ==
    LET i == IndexOf(s, ".") IN
    IF i = 0 THEN [left |-> s, rest |-> NA]
    ELSE [left |-> SubSeq(s, 1, i - 1), rest |-> V(SubSeq(s, i + 1, Len(s)))]

\* re.fullmatch(r"\d{2}\.\d{4}", s)
IsCip6Pattern(s) ==
    /\ Len(s) = 7
    /\ s[3] = "."
    /\ \A i \in {1, 2, 4, 5, 6, 7} : s[i] \in Digits

-----------------------------------------------------------------------------
(* float(s) and f"{f:.4f}"                                                 *)

RECURSIVE NatOf(_)
NatOf(ds) == IF ds = <<>> THEN 0
             ELSE 10 * NatOf(SubSeq(ds, 1, Len(ds) - 1)) + DigitVal(ds[Len(ds)])

\* A digit string plus one, with carry (the string grows on overflow).
RECURSIVE Increment(_)
Increment(ds) ==
    IF ds = <<>> THEN <<"1">>
    ELSE IF ds[Len(ds)] = "9"
         THEN Append(Increment(SubSeq(ds, 1, Len(ds) - 1)), "0")
         ELSE Append(SubSeq(ds, 1, Len(ds) - 1), DigitChar(DigitVal(ds[Len(ds)]) + 1))

RECURSIVE DropLeadingZeros(_)
DropLeadingZeros(ds) ==
    IF Len(ds) > 1 /\ ds[1] = "0" THEN DropLeadingZeros(Tail(ds)) ELSE ds

RECURSIVE DropTrailingZeros(_)
DropTrailingZeros(ds) ==
    IF Len(ds) > 0 /\ ds[Len(ds)] = "0"
    THEN DropTrailingZeros(SubSeq(ds, 1, Len(ds) - 1)) ELSE ds

NotANumber == [ok |-> FALSE]

\* The exponent part of a float literal: NA when absent, V(n) when valid.
ParseExponent(e) ==
    LET signed == Len(e) > 0 /\ e[1] \in {"+", "-"}
        ds == IF signed THEN Tail(e) ELSE e
    IN IF Len(ds) = 0 \/ ~IsDigits(ds) THEN NA
       ELSE V(IF signed /\ e[1] = "-" THEN 0 - NatOf(ds) ELSE NatOf(ds))

\* float(s) for a stripped text s: a ValueError (ok = FALSE), nan, an
\* infinity, or a finite number held exactly as sign, integer digits ip and
\* fraction digits fp.  (Python also accepts "infinity", digit-group
\* underscores and overflows to inf above 1.8e308; the texts of the model
\* hold none of these.)
ParseFloat(s0) ==
    LET s == Strip(s0)
        signed == Len(s) > 0 /\ s[1] \in {"+", "-"}
        neg == signed /\ s[1] = "-"
        body == Lower(IF signed THEN Tail(s) ELSE s)
        ePos == IndexOf(body, "e")
        mant == IF ePos = 0 THEN body ELSE SubSeq(body, 1, ePos - 1)
        expo == IF ePos = 0 THEN V(0)
                ELSE ParseExponent(SubSeq(body, ePos + 1, Len(body)))
        sp == SplitDot(mant)
        ip == sp.left
        fp == IF IsNA(sp.rest) THEN <<>> ELSE sp.rest.v
    IN IF body = <<"n", "a", "n">> THEN [ok |-> TRUE, kind |-> "nan"]
       ELSE IF body = <<"i", "n", "f">> THEN [ok |-> TRUE, kind |-> "inf", neg |-> neg]
       ELSE IF \/ IsNA(expo)
               \/ ~IsDigits(ip) \/ ~IsDigits(fp)
               \/ Len(ip) + Len(fp) = 0
            THEN NotANumber
       ELSE LET ds == ip \o fp
                p == Len(ip) + expo.v     \* digits before the decimal point
            IN [ok |-> TRUE, kind |-> "num", neg |-> neg,
                ip |-> IF p <= 0 THEN <<>>
                       ELSE IF p >= Len(ds) THEN ds \o Zeros(p - Len(ds))
                       ELSE SubSeq(ds, 1, p),
                fp |-> IF p <= 0 THEN Zeros(0 - p) \o ds
                       ELSE IF p >= Len(ds) THEN <<>>
                       ELSE SubSeq(ds, p + 1, Len(ds))]

\* f"{f:.4f}": the value rounded to four decimals.  The fifth decimal decides
\* the rounding; an exact decimal tie is decided in Python by the binary
\* value of the float, and no text of the model has a 5 there followed by
\* zeros only.
Format4f(f) ==
    IF f.kind = "nan" THEN <<"n", "a", "n">>
    ELSE IF f.kind = "inf"
         THEN (IF f.neg THEN <<"-">> ELSE <<>>) \o <<"i", "n", "f">>
    ELSE LET fp4 == SubSeq(f.fp \o Zeros(4), 1, 4)
             up == Len(f.fp) > 4 /\ DigitVal(f.fp[5]) >= 5
             all == IF f.ip = <<>> THEN <<"0">> \o fp4 ELSE f.ip \o fp4
             rounded == IF up THEN Increment(all) ELSE all
             n == Len(rounded)
         IN (IF f.neg THEN <<"-">> ELSE <<>>)
            \o DropLeadingZeros(SubSeq(rounded, 1, n - 4))
            \o <<".">> \o SubSeq(rounded, n - 3, n)

-----------------------------------------------------------------------------
(* Raw cell values of a CSV column as pandas hands them to the code        *)

\* A number cell: the float with integer digits ip and four decimals fp4.
Num(ip, fp4) == [k |-> "num", ip |-> ip, fp |-> fp4]
\* A text cell.
Txt(s) == [k |-> "str", s |-> s]
\* A missing cell (None / NaN / pd.NA).
Missing == [k |-> "na"]

\* str(val): the text of a text cell; repr of a float cell, which for a
\* value of at most four decimals is the integer part without leading zeros,
\* a dot, and the decimals without trailing zeros (at least one).
PyStr(val) ==
    IF val.k = "str" THEN val.s
    ELSE LET f == DropTrailingZeros(val.fp)
         IN DropLeadingZeros(IF val.ip = <<>> THEN <<"0">> ELSE val.ip)
            \o <<".">> \o (IF f = <<>> THEN <<"0">> ELSE f)

-----------------------------------------------------------------------------
(* format_cipcode                                                          *)

\* (rest[0] + "0000")[:4]
RightPad4(r) == SubSeq(r \o Zeros(4), 1, 4)

NumericTextMutNoFormat(s) == s
\* try: s = f"{float(s):.4f}"  except ValueError: pass
NumericText(s) ==
    Bind(ParseFloat(s), LAMBDA f : IF f.ok THEN Format4f(f) ELSE s)

\* format_cipcode(val): NA, or the normalized text.
format_cipcode(val) ==
    IF val.k = "na" THEN NA
    ELSE Bind(Strip(PyStr(val)), LAMBDA s0 :
             IF s0 = <<>> \/ Lower(s0) = <<"n", "a", "n">> THEN NA
             ELSE Bind(SplitDot(NumericText(s0)), LAMBDA sp :
                      IF IsNA(sp.rest) THEN V(Zfill2(sp.left))
                      ELSE V(Zfill2(sp.left) \o <<".">> \o RightPad4(sp.rest.v))))

-----------------------------------------------------------------------------
(* clean_excel_text_wrapper                                                *)

RegexMutLeadingOnly(s) ==
    SubSeq(s, (IF Len(s) >= 1 /\ s[1] = "="
               THEN (IF Len(s) >= 2 /\ s[2] = "\"" THEN 2 ELSE 1)
               ELSE 0) + 1, Len(s))
\* .str.replace(r'^="?|"$', "", regex=True): the match of ^="? at the start
\* is removed, and so is a quote at the very end that the first match did
\* not already consume.
RegexStripWrapper(s) ==
    LET lead == IF Len(s) >= 1 /\ s[1] = "="
                THEN (IF Len(s) >= 2 /\ s[2] = "\"" THEN 2 ELSE 1)
                ELSE 0
        trail == IF Len(s) > lead /\ s[Len(s)] = "\"" THEN 1 ELSE 0
    IN SubSeq(s, lead + 1, Len(s) - trail)

CleanMutNoFinalStrip(c) ==
    IF IsNA(c) THEN NA ELSE V(RegexStripWrapper(Strip(c.v)))
\* clean_excel_text_wrapper on one cell of the series (NA stays NA).
clean_excel_text_wrapper(c) ==
    IF IsNA(c) THEN NA ELSE V(Strip(RegexStripWrapper(Strip(c.v))))

-----------------------------------------------------------------------------
(* load_bigten_unitids                                                     *)

ExpectedInstitutions == 18

BIGTEN_UNITIDS ==
    <<151351, 171100, 147767, 204796, 214777, 243780, 186380, 110662, 145637,
      153658, 163286, 170976, 174066, 181464, 209551, 123961, 236948, 240444>>

\* The path argument: None, a path with no file behind it, or a CSV file of
\* which the model keeps the column names and the cells of the two columns
\* the code looks at.
NoPath == [k |-> "none"]
AbsentPath == [k |-> "absent"]
IdsFile(cols, upper, lower) ==
    [k |-> "file", cols |-> cols, UNITID |-> upper, unitid |-> lower]

\* A cell of the identifier column: an integer, a number with a fraction
\* (v + 0.5), a text that is a number, any other text, or an empty cell.
IntCell(v) == [k |-> "int", v |-> v]
FracCell(v) == [k |-> "frac", v |-> v]
NumTextCell(v) == [k |-> "numtext", v |-> v]
TextCell == [k |-> "text"]
EmptyCell == [k |-> "na"]

\* pd.to_numeric(col, errors="coerce").dropna().astype(int).tolist()
RECURSIVE ToIntList(_)
ToIntList(cells) ==
    IF cells = <<>> THEN <<>>
    ELSE LET c == Head(cells) IN
         (IF c.k \in {"int", "frac", "numtext"} THEN <<c.v>> ELSE <<>>)
         \o ToIntList(Tail(cells))

LoadMutNoFallback(path) ==
    IF path.k \in {"none", "absent"} THEN [ok |-> TRUE, ids |-> BIGTEN_UNITIDS]
    ELSE IF "UNITID" \in path.cols THEN [ok |-> TRUE, ids |-> ToIntList(path.UNITID)]
    ELSE IF "unitid" \in path.cols THEN [ok |-> TRUE, ids |-> ToIntList(path.unitid)]
    ELSE [ok |-> FALSE, ids |-> <<>>]
\* load_bigten_unitids(path): the list returned, or ok = FALSE for the
\* ValueError raised when the file has no identifier column.
load_bigten_unitids(path) ==
    IF path.k = "none" THEN [ok |-> TRUE, ids |-> BIGTEN_UNITIDS]
    ELSE IF path.k = "absent" THEN [ok |-> TRUE, ids |-> BIGTEN_UNITIDS]
    ELSE IF "UNITID" \notin path.cols /\ "unitid" \notin path.cols
         THEN [ok |-> FALSE, ids |-> <<>>]
    ELSE LET unitids == ToIntList(IF "UNITID" \in path.cols
                                  THEN path.UNITID ELSE path.unitid)
         IN [ok |-> TRUE, ids |-> IF unitids # <<>> THEN unitids ELSE BIGTEN_UNITIDS]

-----------------------------------------------------------------------------
(* Bounded inputs of the helper calls                                      *)

MaxLen == 4         \* longest free text given to format_cipcode
MaxWrapLen == 5     \* longest text given to clean_excel_text_wrapper
MaxIdCells == 2     \* most rows of an allow-list file

\* The sequences over S of length at most n.
SeqsUpTo(S, n) == UNION {[1..k -> S] : k \in 0..n}

CipAlphabet == {"0", "1", "3", ".", "-", " ", "a"}
CipSpecialTexts ==
    { <<"n", "a", "n">>, <<"N", "a", "N">>, <<"-", "n", "a", "n">>,
      <<"i", "n", "f">>, <<"-", "i", "n", "f">>,
      <<"1", "e", "3">>, <<"3", "e", "-", "1">>, <<"1", "E", "1">>,
      <<"1", "2", "3", ".", "5">>, <<"9", "9", ".", "9", "9", "9", "9", "9">>,
      <<"0", "3", ".", "0", "1", "0", "4", "9">>, <<"9", "9">>, <<"1", "0", "0">>,
      <<"0", "1", ".", "2", ".", "3">>, <<"3", ".", "0", "1", "0", "4", "0", "0">> }

CodeDigits == {"0", "1", "3", "4"}
CanonicalCodes ==
    { <<a, b, ".", c, d, e, f>> : a \in CodeDigits, b \in CodeDigits, c \in CodeDigits,
                                  d \in CodeDigits, e \in CodeDigits, f \in CodeDigits }

\* The number a canonical code denotes, as a float cell.
NumberOf(c) == Num(SubSeq(c, 1, 2), SubSeq(c, 4, 7))
\* Its decimal text with leading and trailing zeros dropped ("3.0104", "3").
StrippedTextOf(c) ==
    LET f == DropTrailingZeros(SubSeq(c, 4, 7))
    IN Txt(DropLeadingZeros(SubSeq(c, 1, 2))
           \o (IF f = <<>> THEN <<>> ELSE <<".">> \o f))

\* An argument of format_cipcode; code is the canonical code the value was
\* derived from, when it was derived from one.
CipArgs(maxLen) ==
    {[code |-> NA, val |-> Missing]}
    \cup {[code |-> NA, val |-> Txt(s)] : s \in SeqsUpTo(CipAlphabet, maxLen) \cup CipSpecialTexts}
    \cup {[code |-> V(c), val |-> Txt(c)] : c \in CanonicalCodes}
    \cup {[code |-> V(c), val |-> NumberOf(c)] : c \in CanonicalCodes}
    \cup {[code |-> V(c), val |-> StrippedTextOf(c)] : c \in CanonicalCodes}

WrapAlphabet == {"=", "\"", " ", "a"}
WrapArgs(maxLen) == {NA} \cup {V(s) : s \in SeqsUpTo(WrapAlphabet, maxLen)}

IdCells == {IntCell(151351), FracCell(7), NumTextCell(8), TextCell, EmptyCell}
IdColumnSets == SUBSET {"UNITID", "unitid", "INSTNM"}
\* The files of k rows with the columns cols (a column the file does not have
\* holds no cells).
IdFilesWithColumns(cols, k) ==
    {IdsFile(cols, u, l) :
        u \in IF "UNITID" \in cols THEN [1..k -> IdCells] ELSE {<<>>},
        l \in IF "unitid" \in cols THEN [1..k -> IdCells] ELSE {<<>>}}
PathArgs(maxRows) ==
    {NoPath, AbsentPath}
    \cup UNION {IdFilesWithColumns(cols, k) : cols \in IdColumnSets, k \in 0..maxRows}

-----------------------------------------------------------------------------
(* Helper calls as one-step runs                                           *)

NoBuild ==
    /\ inputs = NA /\ bigten_unitids = <<>> /\ table = <<>>
    /\ cip2_lookup = <<>> /\ cip6_lookup = <<>> /\ error = "none" /\ written = <<>>
buildVars == <<inputs, bigten_unitids, table, cip2_lookup, cip6_lookup, error, written>>

InitCip == pc = "call" /\ arg \in CipArgs(MaxLen) /\ res1 = NA /\ res2 = NA /\ NoBuild
CallFormatCipcode ==
    /\ pc = "call"
    /\ res1' = format_cipcode(arg.val)
    /\ pc' = "returned"
    /\ UNCHANGED <<arg, res2, buildVars>>
SpecCip == InitCip /\ [][CallFormatCipcode]_vars

InitWrap == pc = "call" /\ arg \in WrapArgs(MaxWrapLen) /\ res1 = NA /\ res2 = NA /\ NoBuild
CallCleanOnce ==
    /\ pc = "call"
    /\ res1' = clean_excel_text_wrapper(arg)
    /\ pc' = "once"
    /\ UNCHANGED <<arg, res2, buildVars>>
CallCleanTwice ==
    /\ pc = "once"
    /\ res2' = clean_excel_text_wrapper(res1)
    /\ pc' = "twice"
    /\ UNCHANGED <<arg, res1, buildVars>>
SpecWrap == InitWrap /\ [][CallCleanOnce \/ CallCleanTwice]_vars

InitLoad == pc = "call" /\ arg \in PathArgs(MaxIdCells) /\ res1 = NA /\ res2 = NA /\ NoBuild
CallLoadUnitids ==
    /\ pc = "call"
    /\ res1' = load_bigten_unitids(arg)
    /\ pc' = "returned"
    /\ UNCHANGED <<arg, res2, buildVars>>
SpecLoad == InitLoad /\ [][CallLoadUnitids]_vars

-----------------------------------------------------------------------------
(* Properties of the helpers                                               *)

\* C4 as stated: clean_excel_text_wrapper is idempotent on every text, the
\* second application returning what the first returned.
C4_IdempotentOnEveryText == pc = "twice" => res2 = res1

StartsWithEquals(s) == Len(s) >= 1 /\ s[1] = "="
EndsWithQuote(s) == Len(s) >= 1 /\ s[Len(s)] = "\""

\* C4 amended: clean_excel_text_wrapper removes one layer of wrapper.  The
\* second application returns what the first returned exactly when the first
\* result does not itself begin with "=" or end with a double quote (a
\* missing value stays missing); so a singly wrapped value is a fixed point
\* after one pass, and a repeated leading "=" or repeated trailing quote
\* loses one more layer on the second pass.
C4_IdempotentUnlessStillWrapped ==
    pc = "twice" =>
        IF IsNA(arg) THEN IsNA(res1) /\ IsNA(res2)
        ELSE /\ ~IsNA(res1) /\ ~IsNA(res2)
             /\ (res2 = res1) <=> ~(StartsWithEquals(res1.v) \/ EndsWithQuote(res1.v))

\* C4 witness: the wrapped value ="a" cleaned twice, both passes giving a.
C4_WitnessWrappedTwice ==
    /\ pc = "twice"
    /\ arg = V(<<"=", "\"", "a", "\"">>)
    /\ res1 = V(<<"a">>)
    /\ res2 = V(<<"a">>)

IsTwoDigits(s) == Len(s) = 2 /\ IsDigits(s)

\* C7 as stated: format_cipcode returns a missing value, a text NN.NNNN or a
\* text NN, and no other shape, for every raw value.
C7_OnlyCanonicalShapes ==
    pc = "returned" => IsNA(res1) \/ IsCip6Pattern(res1.v) \/ IsTwoDigits(res1.v)

\* The raw value parses as a number without a minus sign whose value, rounded
\* to four decimals, is below 100.
IsCodeNumber(val) ==
    /\ val.k # "na"
    /\ LET f == ParseFloat(PyStr(val))
       IN f.ok /\ f.kind = "num" /\ ~f.neg /\ Len(Format4f(f)) <= 7

\* C7 amended: format_cipcode returns a missing value or a text whose part
\* before the first dot has at least two characters and whose part after it,
\* when there is one, has exactly four; the text is NN.NNNN whenever the raw
\* value parses as a non-negative number that rounds to less than 100.
\* Other inputs keep their own shape (123.5 gives 123.5000, -3 gives
\* -3.0000, inf gives inf, abc gives abc).
C7_PaddedShape ==
    pc = "returned" =>
        /\ IsCodeNumber(arg.val) => ~IsNA(res1) /\ IsCip6Pattern(res1.v)
        /\ ~IsNA(res1) =>
               LET sp == SplitDot(res1.v)
               IN Len(sp.left) >= 2 /\ (~IsNA(sp.rest) => Len(sp.rest.v) = 4)

\* C7 witness: the text 123.5 normalized to 123.5000, a shape outside
\* NN.NNNN and NN.
C7_WitnessThreeDigitInteger ==
    /\ pc = "returned"
    /\ arg.val = Txt(<<"1", "2", "3", ".", "5">>)
    /\ res1 = V(<<"1", "2", "3", ".", "5", "0", "0", "0">>)

\* C8: format_cipcode returns the canonical code c when given c itself, the
\* number c denotes, or that number's decimal text with leading and trailing
\* zeros dropped.
C8_CanonicalFixedPoint ==
    pc = "returned" /\ ~IsNA(arg.code) => res1 = arg.code

\* C8 witness: the number 3.0104 normalized to 03.0104.
C8_WitnessNumberForm ==
    /\ pc = "returned"
    /\ arg.val = Num(<<"0", "3">>, <<"0", "1", "0", "4">>)
    /\ PyStr(arg.val) = <<"3", ".", "0", "1", "0", "4">>
    /\ res1 = V(<<"0", "3", ".", "0", "1", "0", "4">>)

IsNumericCell(c) == c.k \in {"int", "frac", "numtext"}
\* The identifier column the loader reads.
ChosenColumn(f) == IF "UNITID" \in f.cols THEN f.UNITID ELSE f.unitid
\* The integers that column holds, in order.
ParsedIds(f) ==
    LET kept == SelectSeq(ChosenColumn(f), IsNumericCell)
    IN [i \in 1..Len(kept) |-> kept[i].v]

-----------------------------------------------------------------------------
(* Tables of build                                                         *)

\* A title text: the words (core) with blanks before and after, which is all
\* that .str.strip() looks at.
Title(lead, core, trail) == [lead |-> lead, core |-> core, trail |-> trail]
Plain(core) == Title(0, core, 0)
\* .astype("string").str.strip() on one cell.
StripTitle(c) == IF IsNA(c) THEN NA ELSE V(Plain(c.v.core))

CIP2_PLACEHOLDER == Plain("99 - Unclassified / Not in CIP taxonomy")
CIP6_PLACEHOLDER == Plain("Not a CIP6 program (aggregate / unclassified)")

\* pd.to_numeric(col, errors="coerce").astype("Int64") on one cell.
ToInt64(c) == IF c.k = "int" THEN V(c.v) ELSE NA

Range(s) == {s[i] : i \in 1..Len(s)}

RECURSIVE Flatten(_)
Flatten(ss) == IF ss = <<>> THEN <<>> ELSE Head(ss) \o Flatten(Tail(ss))

DropDuplicatesMutKeepAll(s) == s
\* DataFrame.drop_duplicates(): the first occurrence of every row is kept.
RECURSIVE DropDuplicates(_)
DropDuplicates(s) ==
    IF s = <<>> THEN <<>>
    ELSE LET init == DropDuplicates(SubSeq(s, 1, Len(s) - 1))
             last == s[Len(s)]
         IN IF last \in Range(init) THEN init ELSE Append(init, last)

\* Code points of the characters the model's texts use, in ASCII order.
CharOrder == <<" ", "\"", "+", "-", ".", "0", "1", "2", "3", "4", "5", "6", "7",
               "8", "9", "=", "A", "E", "N", "a", "e", "f", "i", "n">>
CodePoint(c) == CHOOSE i \in 1..Len(CharOrder) : CharOrder[i] = c
RECURSIVE LexLeq(_, _)
LexLeq(s, u) ==
    IF s = <<>> THEN TRUE
    ELSE IF u = <<>> THEN FALSE
    ELSE IF s[1] = u[1] THEN LexLeq(Tail(s), Tail(u))
    ELSE CodePoint(s[1]) < CodePoint(u[1])

\* .sort_values("cip2"): rows in ascending order of cip2.  The default sort
\* is not stable, so rows with the same key may come out in any order.
SortedByCip2(rows) ==
    LET n == Len(rows)
    IN {s \in {[i \in 1..n |-> rows[f[i]]] : f \in Permutations(1..n)} :
           \A i \in 1..n : \A j \in (i + 1)..n : LexLeq(s[i].cip2.v, s[j].cip2.v)}

\* hd[["UNITID", "INSTNM"]].drop_duplicates()
HdNames(hd) == DropDuplicates(hd)

WithName(r, name) ==
    [UNITID |-> r.UNITID, CIPCODE |-> r.CIPCODE, MAJORNUM |-> r.MAJORNUM,
     AWLEVEL |-> r.AWLEVEL, CTOTALT |-> r.CTOTALT, INSTNM |-> name]
\* df.merge(hd_names, on="UNITID", how="left"): every row of df once per
\* matching directory row, in df's order, or once with a missing name.
MergeNames(df, hd_names) ==
    Flatten([i \in 1..Len(df) |->
        LET m == SelectSeq(hd_names, LAMBDA h : h.UNITID = df[i].UNITID)
        IN IF m = <<>> THEN <<WithName(df[i], NA)>>
           ELSE [j \in 1..Len(m) |-> WithName(df[i], m[j].INSTNM)]])

IsInMutKeepAll(df, ids) == df
\* df.loc[df["UNITID"].isin(bigten_unitids)]
IsIn(df, ids) ==
    SelectSeq(df, LAMBDA r : r.UNITID.k = "int" /\ r.UNITID.v \in Range(ids))

\* .str.split(".", n=1).str[0].str.zfill(2) on one cell.
Cip2Of(code) == IF IsNA(code) THEN NA ELSE V(Zfill2(SplitDot(code.v).left))

\* The select/rename, the dtype normalization and the cipcode / cip2 columns.
Research(df) ==
    [i \in 1..Len(df) |->
        Bind(format_cipcode(df[i].CIPCODE), LAMBDA code :
            [unitid |-> ToInt64(df[i].UNITID),
             institution |-> df[i].INSTNM,
             cipcode |-> code,
             cip2 |-> Cip2Of(code),
             major_number |-> ToInt64(df[i].MAJORNUM),
             award_level_code |-> ToInt64(df[i].AWLEVEL),
             award_count_total |-> ToInt64(df[i].CTOTALT)])]

\* cip_lookup: the cleaned code, the stripped title and family, and cip2.
CipLookup(cip_raw) ==
    [i \in 1..Len(cip_raw) |->
        Bind(clean_excel_text_wrapper(cip_raw[i].CIPCode), LAMBDA code :
            [cipcode |-> code,
             cip_title |-> StripTitle(cip_raw[i].CIPTitle),
             cip_family |-> StripTitle(cip_raw[i].CIPFamily),
             cip2 |-> Cip2Of(code)])]

\* cip_lookup[["cip2", "cip_family"]].dropna().drop_duplicates().rename(...),
\* before the sort.
Cip2Pairs(lookup) ==
    LET pairs == [i \in 1..Len(lookup) |->
                     [cip2 |-> lookup[i].cip2, cip2_title |-> lookup[i].cip_family]]
    IN DropDuplicates(SelectSeq(pairs, LAMBDA r : ~IsNA(r.cip2) /\ ~IsNA(r.cip2_title)))

\* cip_lookup[["cipcode", "cip_title"]].dropna().drop_duplicates().rename(...)
\* restricted to the codes that match NN.NNNN.
Cip6Lookup(lookup) ==
    LET pairs == [i \in 1..Len(lookup) |->
                     [cipcode |-> lookup[i].cipcode, cip6_title |-> lookup[i].cip_title]]
        kept == DropDuplicates(
                    SelectSeq(pairs, LAMBDA r : ~IsNA(r.cipcode) /\ ~IsNA(r.cip6_title)))
    IN SelectSeq(kept, LAMBDA r : IsCip6Pattern(r.cipcode.v))

WithTitles(r, t2, t6) ==
    [unitid |-> r.unitid, institution |-> r.institution, cipcode |-> r.cipcode,
     cip2 |-> r.cip2, major_number |-> r.major_number,
     award_level_code |-> r.award_level_code,
     award_count_total |-> r.award_count_total,
     cip2_title |-> t2, cip6_title |-> t6]
\* research.merge(cip2_lookup, on="cip2", how="left")
\*         .merge(cip6_lookup, on="cipcode", how="left")
MergeTitles(research, l2, l6) ==
    Flatten([i \in 1..Len(research) |->
        LET r == research[i]
            m2 == SelectSeq(l2, LAMBDA x : x.cip2 = r.cip2)
            t2 == IF m2 = <<>> THEN <<NA>> ELSE [j \in 1..Len(m2) |-> m2[j].cip2_title]
            m6 == SelectSeq(l6, LAMBDA x : x.cipcode = r.cipcode)
            t6 == IF m6 = <<>> THEN <<NA>> ELSE [j \in 1..Len(m6) |-> m6[j].cip6_title]
        IN Flatten([a \in 1..Len(t2) |-> [b \in 1..Len(t6) |-> WithTitles(r, t2[a], t6[b])]])])

\* Series.fillna(value) on one cell.
FillNA(c, value) == IF IsNA(c) THEN V(value) ELSE c

\* award_level_code.map(award_level_labels)
AwardLevelName(code) ==
    IF IsNA(code) THEN NA
    ELSE IF code.v = 5 THEN V("Bachelors")
    ELSE IF code.v = 7 THEN V("Masters")
    ELSE IF code.v = 17 THEN V("Doctoral (Research/Scholarship)")
    ELSE NA

\* degree_group: Bachelors for 5, Graduate for 7 and 17, missing otherwise.
DegreeGroup(code) ==
    IF IsNA(code) THEN NA
    ELSE IF code.v = 5 THEN V("Bachelors")
    ELSE IF code.v \in {7, 17} THEN V("Graduate")
    ELSE NA

\* cipcode.str.fullmatch(r"\d{2}\.\d{4}", na=False)
IsCip6(code) == ~IsNA(code) /\ IsCip6Pattern(code.v)

FinalizeMutNoCip2Fill(joined) ==
    [i \in 1..Len(joined) |->
        [unitid |-> joined[i].unitid, institution |-> joined[i].institution,
         cip2 |-> joined[i].cip2, cip2_title |-> joined[i].cip2_title,
         cipcode |-> joined[i].cipcode,
         cip6_title |-> FillNA(joined[i].cip6_title, CIP6_PLACEHOLDER),
         is_cip6 |-> IsCip6(joined[i].cipcode),
         major_number |-> joined[i].major_number,
         award_level_code |-> joined[i].award_level_code,
         award_level_name |-> AwardLevelName(joined[i].award_level_code),
         degree_group |-> DegreeGroup(joined[i].award_level_code),
         award_count_total |-> joined[i].award_count_total]]
\* The fills, the labels, the is_cip6 flag and the final column order.
Finalize(joined) ==
    [i \in 1..Len(joined) |->
        [unitid |-> joined[i].unitid, institution |-> joined[i].institution,
         cip2 |-> joined[i].cip2,
         cip2_title |-> FillNA(joined[i].cip2_title, CIP2_PLACEHOLDER),
         cipcode |-> joined[i].cipcode,
         cip6_title |-> FillNA(joined[i].cip6_title, CIP6_PLACEHOLDER),
         is_cip6 |-> IsCip6(joined[i].cipcode),
         major_number |-> joined[i].major_number,
         award_level_code |-> joined[i].award_level_code,
         award_level_name |-> AwardLevelName(joined[i].award_level_code),
         degree_group |-> DegreeGroup(joined[i].award_level_code),
         award_count_total |-> joined[i].award_count_total]]

\* research_final["unitid"].nunique(): missing values are not counted.
NUnique(tbl) == Cardinality({tbl[i].unitid.v : i \in {j \in 1..Len(tbl) : ~IsNA(tbl[j].unitid)}})
\* research_final["cip2_title"].isna().sum()
MissingCip2Titles(tbl) == Cardinality({i \in 1..Len(tbl) : IsNA(tbl[i].cip2_title)})
\* research_final.loc[research_final["is_cip6"], "cip6_title"].isna().sum()
MissingCip6ForTrue(tbl) ==
    Cardinality({i \in 1..Len(tbl) : tbl[i].is_cip6 /\ IsNA(tbl[i].cip6_title)})

-----------------------------------------------------------------------------
(* Bounded inputs of build                                                 *)

MaxExtraRows == 1   \* most completions rows beyond the per-institution rows

\* The institutions of the embedded list, named as the source names them.
BIGTEN_NAMES ==
    <<"Indiana University-Bloomington", "Michigan State University",
      "Northwestern University", "Ohio State University-Main Campus",
      "Pennsylvania State University-Main Campus", "Purdue University-Main Campus",
      "Rutgers University-New Brunswick", "University of California-Los Angeles",
      "University of Illinois Urbana-Champaign", "University of Iowa",
      "University of Maryland-College Park", "University of Michigan-Ann Arbor",
      "University of Minnesota-Twin Cities", "University of Nebraska-Lincoln",
      "University of Oregon", "University of Southern California",
      "University of Washington-Seattle Campus", "University of Wisconsin-Madison">>

\* An institution outside the embedded list (Alabama A & M University).
OTHER_UNITIDS == <<100654>>
OtherUnitid == OTHER_UNITIDS[1]
FirstUnitid == BIGTEN_UNITIDS[1]
LastUnitid == BIGTEN_UNITIDS[Len(BIGTEN_UNITIDS)]

Code030104 == <<"0", "3", ".", "0", "1", "0", "4">>
Wrapped(code) == <<"=", "\"">> \o code \o <<"\"">>

CompletionRow(unitid, cipcode, awlevel) ==
    [UNITID |-> unitid, CIPCODE |-> cipcode, MAJORNUM |-> IntCell(1),
     AWLEVEL |-> awlevel, CTOTALT |-> IntCell(12)]
\* The row (u, 3.0104, 1, 5, 12).
StdRow(u) == CompletionRow(IntCell(u), Num(<<"3">>, <<"0", "1", "0", "4">>), IntCell(5))

\* One standard row for each of the first k institutions of the embedded list.
CoverRows(k) == [i \in 1..k |-> StdRow(BIGTEN_UNITIDS[i])]
CoverCounts == {0, Len(BIGTEN_UNITIDS) - 1, Len(BIGTEN_UNITIDS)}

Row99 == CompletionRow(IntCell(FirstUnitid), Num(<<"9", "9">>, Zeros(4)), IntCell(5))
ExtraRowSet ==
    { StdRow(FirstUnitid), StdRow(LastUnitid), StdRow(OtherUnitid),
      CompletionRow(EmptyCell, Num(<<"3">>, <<"0", "1", "0", "4">>), IntCell(5)),
      Row99,
      CompletionRow(IntCell(FirstUnitid), Num(<<"1", "3">>, <<"0", "1", "0", "1">>), IntCell(7)),
      CompletionRow(IntCell(FirstUnitid), Txt(Code030104), IntCell(17)),
      CompletionRow(IntCell(FirstUnitid), Txt(<<"a">>), IntCell(9)),
      CompletionRow(IntCell(FirstUnitid), Missing, TextCell) }

CompletionsTables(maxExtra) ==
    {CoverRows(k) \o extra : k \in CoverCounts, extra \in SeqsUpTo(ExtraRowSet, maxExtra)}

HdRow(u, name) == [UNITID |-> IntCell(u), INSTNM |-> name]
FullDirectory ==
    [i \in 1..Len(BIGTEN_UNITIDS) |-> HdRow(BIGTEN_UNITIDS[i], V(BIGTEN_NAMES[i]))]
HdTables ==
    { <<HdRow(FirstUnitid, V(BIGTEN_NAMES[1]))>>,
      FullDirectory \o <<HdRow(OtherUnitid, NA)>>,
      \* the first institution listed twice with the same name
      FullDirectory \o <<HdRow(FirstUnitid, V(BIGTEN_NAMES[1]))>>,
      \* the first institution listed under two names
      FullDirectory \o <<HdRow(FirstUnitid, V("Indiana University"))>>,
      \* the first institution not listed
      Tail(FullDirectory) }

CipRow(code, title, family) == [CIPCode |-> code, CIPTitle |-> title, CIPFamily |-> family]
CisGeneral == "Computer and Information Sciences, General."
CisFamily == "Computer and Information Sciences"
TaxonomyRow == CipRow(V(Wrapped(Code030104)), V(Plain(CisGeneral)), V(Plain(CisFamily)))
CipTables ==
    { <<TaxonomyRow>>,
      \* a second family and an unwrapped, padded entry of the same family
      << CipRow(V(Wrapped(<<"1", "3", ".", "0", "1">>)), V(Plain("Education, General.")),
                V(Plain("Education"))),
         TaxonomyRow,
         CipRow(V(<<" ", "0", "3">>), V(Title(1, CisFamily, 0)), V(Title(0, CisFamily, 2))) >>,
      \* one 2-digit prefix under two family titles
      << TaxonomyRow,
         CipRow(V(Wrapped(<<"0", "3">>)), V(Plain("COMPUTER SCIENCES.")),
                V(Plain("COMPUTER SCIENCES"))) >>,
      \* one 6-digit code under two titles
      << TaxonomyRow,
         CipRow(V(Wrapped(Code030104)), V(Plain("Computer Science.")), V(Plain(CisFamily))) >>,
      \* rows with a missing code, title or family
      << CipRow(NA, V(Plain(CisGeneral)), V(Plain(CisFamily))),
         CipRow(V(Wrapped(Code030104)), NA, NA) >> }

\* Allow-list arguments: none, a missing file, a file without an identifier
\* column, a file of 18 identifiers (one of them outside the embedded list)
\* and a file of 19 identifiers.
IdsArgs ==
    { NoPath, AbsentPath,
      IdsFile({"INSTNM"}, <<>>, <<>>),
      IdsFile({"unitid", "INSTNM"}, <<>>,
              [i \in 1..Len(BIGTEN_UNITIDS) |->
                   IntCell(IF i = Len(BIGTEN_UNITIDS) THEN OtherUnitid ELSE BIGTEN_UNITIDS[i])]),
      IdsFile({"UNITID"},
              <<TextCell, IntCell(OtherUnitid)>>
              \o [i \in 1..Len(BIGTEN_UNITIDS) |-> IntCell(BIGTEN_UNITIDS[i])], <<>>) }

BuildInputs(unreadable) ==
    [completions : CompletionsTables(MaxExtraRows), hd : HdTables, cip : CipTables, ids : IdsArgs,
     unreadable : unreadable]

\* The inputs of the end-to-end scenario: one completions row, one directory
\* row, one taxonomy row, the default allow-list.
ScenarioInputs(ids) ==
    [completions |-> <<StdRow(FirstUnitid)>>,
     hd |-> <<HdRow(FirstUnitid, V(BIGTEN_NAMES[1]))>>,
     cip |-> <<TaxonomyRow>>,
     ids |-> ids,
     unreadable |-> "none"]

-----------------------------------------------------------------------------
(* build, step by step                                                     *)

NoHelper == arg = NA /\ res1 = NA /\ res2 = NA
helperVars == <<arg, res1, res2>>

Init ==
    /\ pc = "start"
    /\ NoHelper
    /\ inputs \in BuildInputs({"none"})
                  \cup {in \in BuildInputs({"completions", "hd", "cip"}) :
                            in.hd = FullDirectory \o <<HdRow(OtherUnitid, NA)>>
                            /\ in.cip = <<TaxonomyRow>>}
    /\ bigten_unitids = <<>>
    /\ table = <<>>
    /\ cip2_lookup = <<>>
    /\ cip6_lookup = <<>>
    /\ error = "none"
    /\ written = <<>>

Fail(e) ==
    /\ pc' = "failed"
    /\ error' = e

\* pd.read_csv of the three inputs: an unreadable file raises.
LoadInputs ==
    /\ pc = "start"
    /\ IF inputs.unreadable # "none"
       THEN Fail("io") /\ UNCHANGED table
       ELSE pc' = "join_names" /\ table' = inputs.completions /\ UNCHANGED error
    /\ UNCHANGED <<helperVars, inputs, bigten_unitids, cip2_lookup, cip6_lookup, written>>

\* hd_names and the left join of the names.
JoinNames ==
    /\ pc = "join_names"
    /\ table' = MergeNames(table, HdNames(inputs.hd))
    /\ pc' = "filter"
    /\ UNCHANGED <<helperVars, inputs, bigten_unitids, cip2_lookup, cip6_lookup,
                   error, written>>

\* The allow-list is loaded (a file without an identifier column raises) and
\* the table filtered to it.
FilterBigTen ==
    /\ pc = "filter"
    /\ LET r == load_bigten_unitids(inputs.ids)
       IN IF ~r.ok
          THEN Fail("schema") /\ UNCHANGED <<bigten_unitids, table>>
          ELSE /\ bigten_unitids' = r.ids
               /\ table' = IsIn(table, r.ids)
               /\ pc' = "normalize"
               /\ UNCHANGED error
    /\ UNCHANGED <<helperVars, inputs, cip2_lookup, cip6_lookup, written>>

\* Select, rename, dtypes, cipcode and cip2.
Normalize ==
    /\ pc = "normalize"
    /\ table' = Research(table)
    /\ pc' = "lookups"
    /\ UNCHANGED <<helperVars, inputs, bigten_unitids, cip2_lookup, cip6_lookup,
                   error, written>>

\* The two lookups built from the taxonomy.
BuildLookups ==
    /\ pc = "lookups"
    /\ LET lookup == CipLookup(inputs.cip)
       IN /\ cip2_lookup' \in SortedByCip2(Cip2Pairs(lookup))
          /\ cip6_lookup' = Cip6Lookup(lookup)
    /\ pc' = "join_titles"
    /\ UNCHANGED <<helperVars, inputs, bigten_unitids, table, error, written>>

\* The two left joins of the titles.
JoinTitles ==
    /\ pc = "join_titles"
    /\ table' = MergeTitles(table, cip2_lookup, cip6_lookup)
    /\ pc' = "finalize"
    /\ UNCHANGED <<helperVars, inputs, bigten_unitids, cip2_lookup, cip6_lookup,
                   error, written>>

\* Fills, labels, flag and column order.
FillAndLabel ==
    /\ pc = "finalize"
    /\ table' = Finalize(table)
    /\ pc' = "guardrail1"
    /\ UNCHANGED <<helperVars, inputs, bigten_unitids, cip2_lookup, cip6_lookup,
                   error, written>>

Guardrail1MutNoCheck ==
    /\ pc = "guardrail1"
    /\ pc' = "guardrail2"
    /\ UNCHANGED <<helperVars, inputs, bigten_unitids, table, cip2_lookup,
                   cip6_lookup, error, written>>
\* (1) Expect 18 institutions.
Guardrail1 ==
    /\ pc = "guardrail1"
    /\ IF NUnique(table) # ExpectedInstitutions
       THEN Fail("institution_count")
       ELSE pc' = "guardrail2" /\ UNCHANGED error
    /\ UNCHANGED <<helperVars, inputs, bigten_unitids, table, cip2_lookup,
                   cip6_lookup, written>>

\* (2) No missing CIP2 titles after the fill.
Guardrail2 ==
    /\ pc = "guardrail2"
    /\ IF MissingCip2Titles(table) # 0
       THEN Fail("missing_cip2_title")
       ELSE pc' = "guardrail3" /\ UNCHANGED error
    /\ UNCHANGED <<helperVars, inputs, bigten_unitids, table, cip2_lookup,
                   cip6_lookup, written>>

\* (3) All true CIP6 rows have a title.
Guardrail3 ==
    /\ pc = "guardrail3"
    /\ IF MissingCip6ForTrue(table) # 0
       THEN Fail("missing_cip6_title")
       ELSE pc' = "write" /\ UNCHANGED error
    /\ UNCHANGED <<helperVars, inputs, bigten_unitids, table, cip2_lookup,
                   cip6_lookup, written>>

\* research_final.to_csv(out_path) and return.
WriteOutput ==
    /\ pc = "write"
    /\ written' = Append(written, table)
    /\ pc' = "done"
    /\ UNCHANGED <<helperVars, inputs, bigten_unitids, table, cip2_lookup,
                   cip6_lookup, error>>

Next ==
    \/ LoadInputs
    \/ JoinNames
    \/ FilterBigTen
    \/ Normalize
    \/ BuildLookups
    \/ JoinTitles
    \/ FillAndLabel
    \/ Guardrail1
    \/ Guardrail2
    \/ Guardrail3
    \/ WriteOutput

Spec == Init /\ [][Next]_vars

-----------------------------------------------------------------------------
(* Properties of build                                                     *)

\* The run is past the fills: at a guardrail, writing, done, or stopped by a
\* guardrail.
AfterFill ==
    \/ pc \in {"guardrail1", "guardrail2", "guardrail3", "write", "done"}
    \/ pc = "failed" /\ error \in {"institution_count", "missing_cip2_title",
                                    "missing_cip6_title"}

\* The allow-list of the run, and the allow-listed completions rows.
AllowList == load_bigten_unitids(inputs.ids).ids
FilteredCompletions ==
    LET allowed == Range(AllowList)
    IN SelectSeq(inputs.completions,
                 LAMBDA r : r.UNITID.k = "int" /\ r.UNITID.v \in allowed)

\* C1: an output file is written only after the inputs loaded, the allow-list
\* loaded without a schema error and all three guardrails passed; a failed
\* run has written nothing, and a finished run has written exactly one file.
C1_OutputOnlyAfterAllChecks ==
    /\ Len(written) <= 1
    /\ written # <<>> =>
           /\ pc = "done" /\ error = "none"
           /\ inputs.unreadable = "none"
           /\ load_bigten_unitids(inputs.ids).ok
           /\ NUnique(written[1]) = ExpectedInstitutions
           /\ MissingCip2Titles(written[1]) = 0
           /\ MissingCip6ForTrue(written[1]) = 0
    /\ pc = "failed" => written = <<>> /\ error # "none"
    /\ pc = "done" => Len(written) = 1 /\ written[1] = table

\* C1 witness: a finished run with its one output file.
C1_WitnessFinishedRun ==
    pc = "done" /\ Len(written) = 1 /\ Len(written[1]) >= ExpectedInstitutions

IsScenario == inputs \in {ScenarioInputs(NoPath), ScenarioInputs(AbsentPath)}
ScenarioRow ==
    [unitid |-> V(151351), institution |-> V("Indiana University-Bloomington"),
     cip2 |-> V(<<"0", "3">>), cip2_title |-> V(Plain("Computer and Information Sciences")),
     cipcode |-> V(<<"0", "3", ".", "0", "1", "0", "4">>),
     cip6_title |-> V(Plain("Computer and Information Sciences, General.")),
     is_cip6 |-> TRUE, major_number |-> V(1), award_level_code |-> V(5),
     award_level_name |-> V("Bachelors"), degree_group |-> V("Bachelors"),
     award_count_total |-> V(12)]

\* C2 as stated: on the scenario inputs build succeeds and the output has
\* exactly the one scenario row.
C2_ScenarioWritesOneRow ==
    IsScenario /\ pc \in {"done", "failed"} =>
        pc = "done" /\ written = << <<ScenarioRow>> >>

\* C2 amended: on the scenario inputs the table that reaches the guardrails
\* is exactly the one scenario row, and build then aborts with the
\* institution-count error (1 institution, 18 expected) and writes nothing.
C2_ScenarioAbortsOnInstitutionCount ==
    IsScenario =>
        /\ pc # "done" /\ written = <<>>
        /\ pc = "guardrail1" => table = <<ScenarioRow>>
        /\ pc = "failed" =>
               error = "institution_count" /\ table = <<ScenarioRow>> /\ NUnique(table) = 1

\* C2 witness: the scenario run stopped by the institution-count guardrail
\* with the scenario row in its table.
C2_WitnessScenarioAborted ==
    /\ IsScenario
    /\ pc = "failed" /\ error = "institution_count"
    /\ table = <<ScenarioRow>>

\* C3: every written output has exactly 18 distinct unitid values, all of
\* them members of the allow-list load_bigten_unitids returned; and a run
\* that got past the allow-list aborts with the institution-count error
\* exactly when its allow-listed completions rows do not cover 18
\* institutions.
C3_EighteenAllowListedInstitutions ==
    /\ \A k \in 1..Len(written) :
           LET allowed == Range(AllowList)
           IN /\ NUnique(written[k]) = ExpectedInstitutions
              /\ \A i \in 1..Len(written[k]) :
                     /\ ~IsNA(written[k][i].unitid)
                     /\ written[k][i].unitid.v \in allowed
    /\ pc \in {"done", "failed"} /\ error \notin {"io", "schema"} =>
           LET rows == FilteredCompletions
               covered == {rows[i].UNITID.v : i \in 1..Len(rows)}
           IN (Cardinality(covered) # ExpectedInstitutions)
                  <=> (pc = "failed" /\ error = "institution_count")

\* C3 witness: a finished run under an override allow-list whose output
\* holds an institution that is not in the embedded list.
C3_WitnessOverrideAllowList ==
    /\ pc = "done"
    /\ inputs.ids.k = "file"
    /\ bigten_unitids # BIGTEN_UNITIDS
    /\ \E i \in 1..Len(written[1]) : written[1][i].unitid = V(OtherUnitid)

\* C5: every row of the table that reaches the guardrails, and so every
\* output row, has a cip2_title and a cip6_title; the two missing-title
\* guardrails never abort a run.
C5_TitlesNeverMissing ==
    /\ AfterFill =>
           \A i \in 1..Len(table) :
               ~IsNA(table[i].cip2_title) /\ ~IsNA(table[i].cip6_title)
    /\ error \notin {"missing_cip2_title", "missing_cip6_title"}
    /\ pc = "failed" => error \in {"io", "schema", "institution_count"}

\* C5 witness: a finished run whose output holds a row that got both
\* placeholders.
C5_WitnessPlaceholdersWritten ==
    /\ pc = "done"
    /\ \E i \in 1..Len(written[1]) :
           /\ written[1][i].cip2_title = V(CIP2_PLACEHOLDER)
           /\ written[1][i].cip6_title = V(CIP6_PLACEHOLDER)

\* C6: in every output row the 6-digit placeholder appears exactly on the
\* rows whose is_cip6 flag is false (a row with is_cip6 true carries a title
\* looked up from the taxonomy).
C6_PlaceholderExactlyOnNonCip6 ==
    \A k \in 1..Len(written) : \A i \in 1..Len(written[k]) :
        (written[k][i].cip6_title = V(CIP6_PLACEHOLDER)) <=> ~written[k][i].is_cip6

\* The columns of a final row that come from the completions table.
CoreOf(r) ==
    [unitid |-> r.unitid, cipcode |-> r.cipcode, major_number |-> r.major_number,
     award_level_code |-> r.award_level_code, award_count_total |-> r.award_count_total]
\* The same columns of a completions row.
CoreOfCompletion(r) ==
    [unitid |-> ToInt64(r.UNITID), cipcode |-> format_cipcode(r.CIPCODE),
     major_number |-> ToInt64(r.MAJORNUM), award_level_code |-> ToInt64(r.AWLEVEL),
     award_count_total |-> ToInt64(r.CTOTALT)]

\* C10 as stated: the table that reaches the guardrails has exactly one row
\* per allow-listed completions row, in the completions table's order.
C10_OneRowPerFilteredCompletion ==
    pc = "guardrail1" =>
        LET rows == FilteredCompletions
        IN [i \in 1..Len(table) |-> CoreOf(table[i])]
               = [i \in 1..Len(rows) |-> CoreOfCompletion(rows[i])]

\* The different names the directory gives an institution, the different
\* family titles the taxonomy gives a 2-digit prefix, and the different
\* titles it gives a 6-digit code.
NamesOf(unitid) ==
    {inputs.hd[j].INSTNM : j \in {x \in 1..Len(inputs.hd) : inputs.hd[x].UNITID = unitid}}
FamiliesOf(cip2) ==
    {StripTitle(inputs.cip[j].CIPFamily) :
        j \in {x \in 1..Len(inputs.cip) :
                 /\ ~IsNA(inputs.cip[x].CIPFamily)
                 /\ ~IsNA(cip2)
                 /\ Cip2Of(clean_excel_text_wrapper(inputs.cip[x].CIPCode)) = cip2}}
TitlesOf(code) ==
    {StripTitle(inputs.cip[j].CIPTitle) :
        j \in {x \in 1..Len(inputs.cip) :
                 /\ ~IsNA(inputs.cip[x].CIPTitle)
                 /\ IsCip6(code)
                 /\ clean_excel_text_wrapper(inputs.cip[x].CIPCode) = code}}
AtLeastOne(n) == IF n = 0 THEN 1 ELSE n
\* How many rows the joins make of one completions row.
CopiesOf(r) ==
    LET code == format_cipcode(r.CIPCODE)
    IN AtLeastOne(Cardinality(NamesOf(r.UNITID)))
       * AtLeastOne(Cardinality(FamiliesOf(Cip2Of(code))))
       * AtLeastOne(Cardinality(TitlesOf(code)))

\* C10 amended: the joins never drop a row and keep the completions order,
\* but they make one row for every combination of matching lookup entries:
\* an allow-listed completions row appears (names of its UNITID, at least 1)
\* x (family titles of its 2-digit prefix, at least 1) x (titles of its code,
\* at least 1) times, so exactly once only when no key has two different
\* entries.
C10_OneRowPerMatchCombination ==
    pc = "guardrail1" =>
        LET rows == FilteredCompletions
        IN [i \in 1..Len(table) |-> CoreOf(table[i])]
               = Flatten([i \in 1..Len(rows) |->
                             LET core == CoreOfCompletion(rows[i])
                                 n == CopiesOf(rows[i])
                             IN [c \in 1..n |-> core]])

\* C10 witness: a table at the guardrails with more rows than there are
\* allow-listed completions rows.
C10_WitnessDuplicatedRows ==
    /\ pc = "guardrail1"
    /\ LET rows == FilteredCompletions
       IN Len(rows) >= 1 /\ Len(table) > Len(rows)

====
